---- MODULE Spec2Model ----
(***************************************************************************)
(* Token vault (crypto-utils: getKey / encrypt / decrypt), the shop store  *)
(* that persists encrypted Shopify access tokens (shop-db.js) and the two  *)
(* routes of the Shopify OAuth flow (index.js).                            *)
(*                                                                         *)
(* Data representation                                                     *)
(*   JS string  : sequence of characters; a character is a record          *)
(*                [k, n, t]: k = "h" lowercase hex digit of value n,       *)
(*                k = "H" uppercase hex letter of value n, k = ":" the     *)
(*                colon, k = "u" any other character with code point n.    *)
(*   Buffer     : sequence of bytes; a byte is a record [v, t]: t = <<>>   *)
(*                for a concrete byte of value v in 0..255.                *)
(*   The node:crypto primitives are idealised: scrypt is injective in the  *)
(*   secret, the GCM tag of (key, iv, ciphertext) is a symbolic term over  *)
(*   the three (byte j of the tag is [v |-> j, t |-> term]),               *)
(*   and randomBytes hands out a sequence of pairwise different values.    *)
(***************************************************************************)
EXTENDS Integers, Sequences, FiniteSets, TLC

VARIABLES env, drawn, last, hist, ret, shops, frames, web, tables, runs, api

vars == <<env, drawn, last, hist, ret, shops, frames, web, tables, runs, api>>

-----------------------------------------------------------------------------
(* Bounds of the model *)

\* longest plaintext handed to encrypt
MaxLen == 2
\* number of values the entropy source hands out (calls of encrypt that
\* reach randomBytes)
MaxIV == 2
\* number of authorization codes posted to Shopify
MaxExchanges == 2

-----------------------------------------------------------------------------
(* Program constants *)

SALT == "shopify-app-salt"
KeyLen == 32
IvLen == 16
TagLen == 16

-----------------------------------------------------------------------------
(* Characters and strings *)

Ch(k, n) == [k |-> k, n |-> n, t |-> <<>>]

Colon == Ch(":", 58)

\* code point of a concrete character
CodePoint(c) ==
  CASE c.k = "h" -> IF c.n < 10 THEN 48 + c.n ELSE 87 + c.n
    [] c.k = "H" -> 55 + c.n
    [] OTHER     -> c.n

\* the character with code point cp
FromCodePoint(cp) ==
  CASE cp >= 48 /\ cp <= 57  -> Ch("h", cp - 48)
    [] cp >= 97 /\ cp <= 102 -> Ch("h", cp - 87)
    [] cp >= 65 /\ cp <= 70  -> Ch("H", cp - 55)
    [] cp = 58               -> Colon
    [] OTHER                 -> Ch("u", cp)

RECURSIVE Concat(_)
Concat(ss) == IF ss = <<>> THEN <<>> ELSE Head(ss) \o Concat(Tail(ss))

Range(s) == {s[i] : i \in 1..Len(s)}

-----------------------------------------------------------------------------
(* Buffers: utf8 and hex conversions as node performs them *)

Byte(v) == [v |-> v, t |-> <<>>]

IsSurrogate(cp) == cp >= 55296 /\ cp <= 57343

\* utf8 bytes of one UTF-16 code unit; an unpaired surrogate is written as
\* U+FFFD (EF BF BD)
Utf8Char(cp) ==
  CASE cp < 128        -> <<Byte(cp)>>
    [] cp < 2048       -> <<Byte(192 + (cp \div 64)), Byte(128 + (cp % 64))>>
    [] IsSurrogate(cp) -> <<Byte(239), Byte(191), Byte(189)>>
    [] OTHER           -> <<Byte(224 + (cp \div 4096)),
                            Byte(128 + ((cp \div 64) % 64)),
                            Byte(128 + (cp % 64))>>

\* cipher.update(text, 'utf8', ...): the bytes of a string
Utf8Encode(text) == Concat([i \in 1..Len(text) |-> Utf8Char(CodePoint(text[i]))])

IsCont(b) == b.v >= 128 /\ b.v <= 191

\* faulty variant of Utf8Decode: the bytes read as latin1, one character per byte
Utf8DecodeLatin1(bs) == [i \in 1..Len(bs) |-> FromCodePoint(bs[i].v)]

\* decipher.update(..., 'utf8'): the string of a byte sequence; a byte that
\* starts no well-formed sequence decodes to U+FFFD
RECURSIVE Utf8Decode(_)
Utf8Decode(bs) ==
  IF bs = <<>> THEN <<>>
  ELSE LET b == bs[1].v IN
    IF b < 128 THEN <<FromCodePoint(b)>> \o Utf8Decode(Tail(bs))
    ELSE IF b >= 194 /\ b <= 223 /\ Len(bs) >= 2 /\ IsCont(bs[2])
      THEN <<FromCodePoint((b - 192) * 64 + (bs[2].v - 128))>>
             \o Utf8Decode(SubSeq(bs, 3, Len(bs)))
    ELSE IF b >= 224 /\ b <= 239 /\ Len(bs) >= 3 /\ IsCont(bs[2]) /\ IsCont(bs[3])
      THEN LET cp == (b - 224) * 4096 + (bs[2].v - 128) * 64 + (bs[3].v - 128)
           IN  <<FromCodePoint(IF cp < 2048 \/ IsSurrogate(cp) THEN 65533 ELSE cp)>>
                 \o Utf8Decode(SubSeq(bs, 4, Len(bs)))
    ELSE <<FromCodePoint(65533)>> \o Utf8Decode(Tail(bs))

IsHex(c) == c.k \in {"h", "H"}

\* buf.toString('hex') of one byte: two lowercase hex digits; the digits of
\* a tag byte are the symbolic digits 0 (high) and 1 (low) of that byte
HexByte(b) ==
  IF b.t = <<>>
  THEN <<Ch("h", b.v \div 16), Ch("h", b.v % 16)>>
  ELSE <<[k |-> "h", n |-> 0, t |-> <<b>>], [k |-> "h", n |-> 1, t |-> <<b>>]>>

ToHex(buf) == [i \in 1..(2 * Len(buf)) |-> HexByte(buf[(i + 1) \div 2])[2 - (i % 2)]]

\* the byte two hex digits decode to (letter case is ignored)
UnhexByte(c1, c2) ==
  IF c1.t = <<>> /\ c2.t = <<>> THEN Byte(16 * c1.n + c2.n)
  ELSE IF c1.t = c2.t /\ c1.n = 0 /\ c2.n = 1 THEN c1.t[1]
  ELSE [v |-> 0, t |-> <<c1, c2>>]

\* Buffer.from(str, 'hex'): decodes pairs of hex digits and stops at the
\* first pair that is not two hex digits; a trailing single digit is dropped
FromHex(str) ==
  LET pairs == Len(str) \div 2
      bad   == {k \in 1..pairs : ~IsHex(str[2 * k - 1]) \/ ~IsHex(str[2 * k])}
      n     == IF bad = {} THEN pairs ELSE (CHOOSE k \in bad : \A j \in bad : k <= j) - 1
  IN  [k \in 1..n |-> UnhexByte(str[2 * k - 1], str[2 * k])]

\* str.split(':'): the pieces between the colons, in order
Split(str) ==
  LET colons == {i \in 1..Len(str) : str[i] = Colon}
      cuts   == colons \cup {0, Len(str) + 1}
      \* the cut that follows cut c
      after(c) == CHOOSE d \in cuts : d > c /\ \A x \in cuts : x > c => d <= x
      start[k \in 1..(Cardinality(colons) + 1)] == IF k = 1 THEN 0 ELSE after(start[k - 1])
  IN  [k \in 1..(Cardinality(colons) + 1) |-> SubSeq(str, start[k] + 1, after(start[k]) - 1)]

\* const [a, b, c] = parts: element i of the array; a missing element is
\* undefined, which the code only tests for falsiness, as the empty string
Nth(parts, i) == IF i <= Len(parts) THEN parts[i] ELSE <<>>

-----------------------------------------------------------------------------
(* node:crypto primitives *)

RECURSIVE Xor(_, _)
Xor(a, b) ==
  IF a = 0 THEN b
  ELSE IF b = 0 THEN a
  ELSE ((a + b) % 2) + 2 * Xor(a \div 2, b \div 2)

RECURSIVE WeightedSum(_, _)
WeightedSum(buf, i) ==
  IF i > Len(buf) THEN 0 ELSE i * buf[i].v + WeightedSum(buf, i + 1)

\* crypto.scryptSync(secret, salt, keylen): the key is the term over its
\* arguments, so different secrets give different keys
Scrypt(secret, salt, keylen) == [secret |-> secret, salt |-> salt, len |-> keylen]

\* byte i of the AES-CTR key stream of (key, iv): a fixed function of the
\* key, the iv and the position stands in for the block cipher
KeyStream(key, iv, i) ==
  (WeightedSum(Utf8Encode(key.secret), 1) * 7 + WeightedSum(iv, 1) * 3 + 29 * i) % 256

\* cipher.update / decipher.update in GCM (counter mode): the data XOR the
\* key stream; encryption and decryption are the same transformation
GcmCrypt(key, iv, data) ==
  [i \in 1..Len(data) |-> Byte(Xor(data[i].v, KeyStream(key, iv, i)))]

\* the value of a byte as it enters the tag: 256 stands for a byte that is
\* not concrete (no tag handed out by encrypt is over such a byte)
TagInput(b) == IF b.t = <<>> THEN b.v ELSE 256

\* cipher.getAuthTag(): the 16-byte tag over (key, iv, ciphertext); its term
\* is the key followed by the length and the bytes of the iv and the bytes of
\* the ciphertext
GcmTag(key, iv, ct) ==
  LET term == <<key, Len(iv)>> \o [i \in 1..Len(iv) |-> TagInput(iv[i])]
                              \o [i \in 1..Len(ct) |-> TagInput(ct[i])]
  IN  [j \in 1..TagLen |-> [v |-> j, t |-> term]]

\* tag lengths decipher.setAuthTag accepts in GCM mode
ValidGcmTagLengths == {4, 8, 12, 13, 14, 15, 16}

\* crypto.randomBytes(16): the n-th value the entropy source hands out; the
\* values are pairwise different, and which 16 bytes they are is immaterial
IvOf(n) == [j \in 1..IvLen |-> Byte((37 * n + 11 * j) % 256)]

IVs == {IvOf(n) : n \in 1..MaxIV}

-----------------------------------------------------------------------------
(* Outcomes of a call *)

\* an error object: its class, its message and the caller-supplied strings it
\* carries (none for the errors crypto-utils builds)
ErrWith(name, message, text) == [name |-> name, message |-> message, text |-> text]

Err(name, message) == ErrWith(name, message, <<>>)

NoError == Err("", "")

\* console.error(prefix, error) or console.log(line): a line with the error it
\* prints and the strings interpolated into it
LogLine(prefix, error, text) == [msg |-> prefix, err |-> error, text |-> text]

Returned(value, log, trace) ==
  [status |-> "return", value |-> value, error |-> NoError, log |-> log, trace |-> trace]

Thrown(error, log, trace) ==
  [status |-> "throw", value |-> <<>>, error |-> error, log |-> log, trace |-> trace]

-----------------------------------------------------------------------------
(* crypto-utils *)

\* faulty variant of GetKey: the key derived once, from the first secret, is
\* kept and returned without another derivation
GetKeyCached(e) ==
  Returned(Scrypt(<<Ch("h", 10)>>, SALT, KeyLen), <<>>, <<>>)

\* process.env.ENCRYPTION_KEY is <<>> when unset and <<s>> when set to s
GetKey(e) ==
  IF e = <<>> \/ e[1] = <<>>
  THEN Thrown(Err("Error", "ENCRYPTION_KEY environment variable is not set"), <<>>, <<>>)
  ELSE Returned(Scrypt(e[1], SALT, KeyLen), <<>>, <<"scryptSync">>)

\* faulty variant of Encrypt: the tag is written before the IV
EncryptTagFirst(text, e, rnd) ==
  LET k == GetKey(e) IN
  IF k.status = "throw"
  THEN Thrown(Err("Error", "Failed to encrypt data"),
              <<LogLine("Encryption error:", k.error, <<>>)>>, k.trace)
  ELSE LET ct == GcmCrypt(k.value, rnd, Utf8Encode(text))
       IN  Returned(ToHex(GcmTag(k.value, rnd, ct)) \o <<Colon>> \o ToHex(rnd) \o <<Colon>> \o ToHex(ct),
                    <<>>,
                    k.trace \o <<"randomBytes", "createCipheriv", "update", "final", "getAuthTag">>)

\* faulty variant of Encrypt: the IV is a constant instead of the random value
EncryptStaticIv(text, e, rnd) ==
  LET k == GetKey(e) IN
  IF k.status = "throw"
  THEN Thrown(Err("Error", "Failed to encrypt data"),
              <<LogLine("Encryption error:", k.error, <<>>)>>, k.trace)
  ELSE LET iv == IvOf(1)
           ct == GcmCrypt(k.value, iv, Utf8Encode(text))
       IN  Returned(ToHex(iv) \o <<Colon>> \o ToHex(GcmTag(k.value, iv, ct)) \o <<Colon>> \o ToHex(ct),
                    <<>>,
                    k.trace \o <<"randomBytes", "createCipheriv", "update", "final", "getAuthTag">>)

\* faulty variant of Encrypt: the failure line also prints the text
EncryptLogsText(text, e, rnd) ==
  LET k == GetKey(e) IN
  IF k.status = "throw"
  THEN Thrown(Err("Error", "Failed to encrypt data"),
              <<LogLine("Encryption error:", k.error, <<text>>)>>, k.trace)
  ELSE LET ct == GcmCrypt(k.value, rnd, Utf8Encode(text))
       IN  Returned(ToHex(rnd) \o <<Colon>> \o ToHex(GcmTag(k.value, rnd, ct)) \o <<Colon>> \o ToHex(ct),
                    <<>>,
                    k.trace \o <<"randomBytes", "createCipheriv", "update", "final", "getAuthTag">>)

\* encrypt(text) when randomBytes(16) returns rnd
Encrypt(text, e, rnd) ==
  LET k == GetKey(e) IN
  IF k.status = "throw"
  THEN Thrown(Err("Error", "Failed to encrypt data"),
              <<LogLine("Encryption error:", k.error, <<>>)>>, k.trace)
  ELSE LET key       == k.value
           iv        == rnd
           ct        == GcmCrypt(key, iv, Utf8Encode(text))
           encrypted == ToHex(ct)
           authTag   == GcmTag(key, iv, ct)
       IN  Returned(ToHex(iv) \o <<Colon>> \o ToHex(authTag) \o <<Colon>> \o encrypted,
                    <<>>,
                    k.trace \o <<"randomBytes", "createCipheriv", "update", "final", "getAuthTag">>)

DecryptFailed(cause, trace) ==
  Thrown(Err("Error", "Failed to decrypt data"),
         <<LogLine("Decryption error:", cause, <<>>)>>, trace)

\* faulty variant of Decrypt: an empty third segment is let through
DecryptEmptyOk(encryptedText, e) ==
  LET k == GetKey(e) IN
  IF k.status = "throw" THEN DecryptFailed(k.error, k.trace)
  ELSE
  LET key        == k.value
      parts      == Split(encryptedText)
      ivHex      == Nth(parts, 1)
      authTagHex == Nth(parts, 2)
      encrypted  == Nth(parts, 3)
      iv         == FromHex(ivHex)
      authTag    == FromHex(authTagHex)
      ct         == FromHex(encrypted)
  IN
  IF ivHex = <<>> \/ authTagHex = <<>>
  THEN DecryptFailed(Err("Error", "Invalid encrypted text format"), k.trace)
  ELSE IF Len(iv) = 0 \/ Len(authTag) \notin ValidGcmTagLengths \/ Len(encrypted) % 2 # 0
  THEN DecryptFailed(Err("TypeError", "Invalid argument"), k.trace \o <<"createDecipheriv">>)
  ELSE IF authTag # SubSeq(GcmTag(key, iv, ct), 1, Len(authTag))
  THEN DecryptFailed(Err("Error", "Unsupported state or unable to authenticate data"),
                     k.trace \o <<"createDecipheriv", "setAuthTag", "update", "final">>)
  ELSE Returned(Utf8Decode(GcmCrypt(key, iv, ct)), <<>>,
                k.trace \o <<"createDecipheriv", "setAuthTag", "update", "final">>)

\* decrypt(encryptedText)
Decrypt(encryptedText, e) ==
  LET k == GetKey(e) IN
  IF k.status = "throw" THEN DecryptFailed(k.error, k.trace)
  ELSE
  LET key        == k.value
      parts      == Split(encryptedText)
      ivHex      == Nth(parts, 1)
      authTagHex == Nth(parts, 2)
      encrypted  == Nth(parts, 3)
      iv         == FromHex(ivHex)
      authTag    == FromHex(authTagHex)
      ct         == FromHex(encrypted)
      decrypted  == Utf8Decode(GcmCrypt(key, iv, ct))
  IN
  IF ivHex = <<>> \/ authTagHex = <<>> \/ encrypted = <<>>
  THEN DecryptFailed(Err("Error", "Invalid encrypted text format"), k.trace)
  ELSE IF Len(iv) = 0
  THEN DecryptFailed(Err("TypeError", "Invalid initialization vector"),
                     k.trace \o <<"createDecipheriv">>)
  ELSE IF Len(authTag) \notin ValidGcmTagLengths
  THEN DecryptFailed(Err("TypeError", "Invalid authentication tag length"),
                     k.trace \o <<"createDecipheriv", "setAuthTag">>)
  ELSE IF Len(encrypted) % 2 # 0
  THEN DecryptFailed(Err("TypeError", "The argument 'encoding' is invalid for data of this length"),
                     k.trace \o <<"createDecipheriv", "setAuthTag">>)
  ELSE IF authTag # SubSeq(GcmTag(key, iv, ct), 1, Len(authTag))
  THEN DecryptFailed(Err("Error", "Unsupported state or unable to authenticate data"),
                     k.trace \o <<"createDecipheriv", "setAuthTag", "update", "final">>)
  ELSE Returned(decrypted, <<>>,
                k.trace \o <<"createDecipheriv", "setAuthTag", "update", "final">>)

-----------------------------------------------------------------------------
(* Inputs *)

SecretA == <<Ch("h", 10)>>
SecretB == <<Ch("h", 11)>>

\* process.env.ENCRYPTION_KEY: unset, empty, or one of two secrets
EnvValues == {<<>>, <<<<>>>>, <<SecretA>>, <<SecretB>>}

\* 'a' (one utf8 byte), U+00E9 (two bytes) and the unpaired surrogate
\* U+D800 (written as the three bytes of U+FFFD)
PlainChars == {Ch("h", 10), Ch("u", 233), Ch("u", 55296)}

Plaintexts == UNION {[1..n -> PlainChars] : n \in 0..MaxLen}

WellFormed(text) == \A i \in 1..Len(text) : ~IsSurrogate(CodePoint(text[i]))

\* ways a caller derives the argument of decrypt from a blob b:
\*   same     b itself
\*   flip     the hex digit at pos replaced by a digit of another value
\*   upper    the hex letter at pos replaced by its uppercase form
\*   nonhex   the character at pos replaced by 'z'
\*   drop3    the third segment and its colon removed
\*   iv8      the IV segment cut to its first 8 bytes
\*   tag8     the tag segment cut to its first 8 bytes
\*   append4  a fourth segment ":00" appended
\*   junk     "zz" appended to the third segment
\*   empty    the empty string
\* (for a call of encrypt, "repeat" marks a call with the text and the secret
\* of the previous successful call; for a call of saveShop, "replace" marks a
\* call for a shop that has a row)
Variant(kind, pos) == [kind |-> kind, pos |-> pos]

NoVariant == Variant("none", 0)

SegLen == 2 * IvLen

DigitPositions(b) == {p \in 1..Len(b) : b[p] # Colon}

Variants(b) ==
     {Variant(k, 0) : k \in {"same", "drop3", "iv8", "tag8", "append4", "junk", "empty"}}
  \cup {Variant("flip", p) : p \in DigitPositions(b)}
  \cup {Variant("nonhex", p) : p \in {q \in DigitPositions(b) :
                                        \/ q - 1 \notin DigitPositions(b)
                                        \/ q + 1 \notin DigitPositions(b)
                                        \/ q - 2 \notin DigitPositions(b)}}
  \cup {Variant("upper", p) : p \in {q \in DigitPositions(b) : b[q].t = <<>> /\ b[q].n >= 10}}

ApplyVariant(w, b) ==
  CASE w.kind = "flip"    -> [b EXCEPT ![w.pos] =
                                IF @.t = <<>> THEN Ch("h", (@.n + 1) % 16) ELSE Ch("h", 0)]
    [] w.kind = "upper"   -> [b EXCEPT ![w.pos] = Ch("H", @.n)]
    [] w.kind = "nonhex"  -> [b EXCEPT ![w.pos] = Ch("u", 122)]
    [] w.kind = "drop3"   -> SubSeq(b, 1, 2 * SegLen + 1)
    [] w.kind = "iv8"     -> SubSeq(b, 1, IvLen) \o SubSeq(b, SegLen + 1, Len(b))
    [] w.kind = "tag8"    -> SubSeq(b, 1, SegLen + 1 + TagLen) \o SubSeq(b, 2 * SegLen + 2, Len(b))
    [] w.kind = "append4" -> b \o <<Colon, Ch("h", 0), Ch("h", 0)>>
    [] w.kind = "junk"    -> b \o <<Ch("u", 122), Ch("u", 122)>>
    [] w.kind = "empty"   -> <<>>
    [] OTHER              -> b

-----------------------------------------------------------------------------
(* State machine of the vault: calls of encrypt and decrypt *)

Call(op, arg, how, out) == [op |-> op, arg |-> arg, how |-> how, out |-> out]

Idle == Call("none", <<>>, NoVariant, Returned(<<>>, <<>>, <<>>))

\* calls of encrypt and decrypt that run side by side
Procs == {1, 2}

\* the activation record of one call: where it stands (idle, key: getKey has
\* returned, iv: randomBytes has returned, done: it has returned or thrown),
\* its argument, the secret getKey read, the iv it drew and its outcome
Frame(pc, op, arg, e, iv, out) ==
  [pc |-> pc, op |-> op, arg |-> arg, e |-> e, iv |-> iv, out |-> out]

IdleFrame == Frame("idle", "none", <<>>, <<>>, <<>>, Returned(<<>>, <<>>, <<>>))

\* an HTTP request of the OAuth routes: a query parameter is <<>> when absent
\* and <<v>> when present with value v
Request(route, code, state) == [route |-> route, code |-> code, state |-> state]

NoRequest == Request("none", <<>>, <<>>)

\* a redirect target: the names of its query parameters and the value of its
\* state parameter (<<>> when it has none)
Location(params, state) == [params |-> params, state |-> state]

NoLocation == Location({}, <<>>)

\* an HTTP reply: status code, the error of its JSON body ("" when none), the
\* access_token of its JSON body (<<>> when none), the redirect target
Reply(status, error, access_token, location) ==
  [status |-> status, error |-> error, access_token |-> access_token, location |-> location]

NoReply == Reply(0, "", <<>>, NoLocation)

\* the OAuth traffic so far: the state values issued by redirects, the codes
\* posted to Shopify's access_token endpoint, the last request and its reply
NoTraffic == [issued |-> {}, sent |-> <<>>, req |-> NoRequest, reply |-> NoReply]

\* a row of orders; a column that is NULL is <<>>, one with value v is <<v>>
Order(id, order_number, shopify_order_id, status, batch_id) ==
  [id |-> id, order_number |-> order_number, shopify_order_id |-> shopify_order_id,
   status |-> status, batch_id |-> batch_id]

\* the tables of the database besides shops, each in the order of its serial
\* id: order_items rows are [order_id, sku], shipments rows are [order_id,
\* carrier, tracking_number], shipping_manifests rows are [batch_id, carrier,
\* tracking_codes, shipment_count]
Tables(orders, order_items, shipments, shipping_manifests) ==
  [orders |-> orders, order_items |-> order_items, shipments |-> shipments,
   shipping_manifests |-> shipping_manifests]

NoRows == Tables(<<>>, <<>>, <<>>, <<>>)

\* runs of POST /shopify/sync-orders that overlap in time
Runs == {1, 2}

\* a run of POST /shopify/sync-orders: where it stands (idle; check, insert,
\* items: the next query of the loop body), the access token it read, the
\* orders of data.orders still to import, the id of the order row just
\* inserted, the line items of that order still to insert, and the lists
\* imported and errors
Run(pc, token, todo, orderId, items, imported, errors) ==
  [pc |-> pc, token |-> token, todo |-> todo, orderId |-> orderId, items |-> items,
   imported |-> imported, errors |-> errors]

IdleRun == Run("idle", <<>>, <<>>, 0, <<>>, <<>>, <<>>)

\* what a route has answered: the route, the token it read from
\* SHOPIFY_ACCESS_TOKEN, the status code, the error of the body ("" when
\* none), and whether it sent a request to Shopify
Served(route, token, status, error, fetched) ==
  [route |-> route, token |-> token, status |-> status, error |-> error, fetched |-> fetched]

NoServed == Served("none", <<>>, 0, "", FALSE)

\* the lists imported and errors in the body of a sync answer
Report(imported, errors) == [imported |-> imported, errors |-> errors]

NoReport == Report(<<>>, <<>>)

\* process.env.SHOPIFY_ACCESS_TOKEN, the last answer of a route, and the
\* lists of the last answer of POST /shopify/sync-orders
Api(token, reply, report) == [token |-> token, reply |-> reply, report |-> report]

Init ==
  /\ env \in EnvValues
  /\ drawn = {}
  /\ last = <<>>
  /\ hist = <<>>
  /\ ret = Idle
  /\ shops = <<>>
  /\ frames = [p \in Procs |-> IdleFrame]
  /\ web = NoTraffic
  /\ tables = NoRows
  /\ runs = [r \in Runs |-> IdleRun]
  /\ api = Api(<<>>, NoServed, NoReport)

\* the deployment sets, changes or removes ENCRYPTION_KEY between two calls
SetSecret ==
  /\ ret.op = "none"
  /\ \E e \in EnvValues :
       /\ e # env
       /\ env' = e
       /\ UNCHANGED <<drawn, last, hist, ret, shops, frames, web, tables, runs, api>>

\* first segment of a blob
IvSegment(blob) == Nth(Split(blob), 1)

\* the value the next call of randomBytes(16) returns
RandomBytes == IvOf(Cardinality(drawn) + 1)

\* entropy consumed by a call
Draw(out, rnd) == IF "randomBytes" \in Range(out.trace) THEN drawn \cup {rnd} ELSE drawn

CallEncrypt ==
  /\ ret.op = "none"
  /\ drawn # IVs
  /\ \E text \in Plaintexts :
       LET rnd == RandomBytes
           out == Encrypt(text, env, rnd)
       IN
       /\ ret' = Call("encrypt", text,
                      IF last # <<>> /\ last[1].text = text /\ last[1].e = env
                      THEN Variant("repeat", 0) ELSE NoVariant,
                      out)
       /\ drawn' = Draw(out, rnd)
       /\ last' = IF out.status = "return"
                  THEN <<[blob |-> out.value, text |-> text, e |-> env, iv |-> rnd]>>
                  ELSE last
       /\ hist' = IF out.status = "return" THEN Append(hist, IvSegment(out.value)) ELSE hist
       /\ UNCHANGED <<env, shops, frames, web, tables, runs, api>>

CallDecrypt ==
  /\ ret.op = "none"
  /\ last # <<>>
  /\ \E w \in Variants(last[1].blob) :
       LET arg == ApplyVariant(w, last[1].blob) IN
       /\ ret' = Call("decrypt", arg, w, Decrypt(arg, env))
       /\ UNCHANGED <<env, drawn, last, hist, shops, frames, web, tables, runs, api>>

\* the caller has taken the result of the call
Resume ==
  /\ ret.op # "none"
  /\ ret' = Idle
  /\ UNCHANGED <<env, drawn, last, hist, shops, frames, web, tables, runs, api>>

Next == SetSecret \/ CallEncrypt \/ CallDecrypt \/ Resume

Spec == Init /\ [][Next]_vars

-----------------------------------------------------------------------------
(* shop-db: the shops table and its five operations *)

\* shop domains 'x' and 'y'
ShopNames == {<<Ch("u", 120)>>, <<Ch("u", 121)>>}

\* access tokens handed to saveShop: "", "a" and "éa"
Tokens == {<<>>, <<Ch("h", 10)>>, <<Ch("u", 233), Ch("h", 10)>>}

\* a row of shops: the table is kept in the order of installed_at, which an
\* update leaves alone; the columns the operations only copy are left out
Row(shop, token, active) == [shop |-> shop, access_token |-> token, is_active |-> active]

Reverse(rows) == [i \in 1..Len(rows) |-> rows[Len(rows) + 1 - i]]

HasShop(rows, shop) == \E i \in 1..Len(rows) : rows[i].shop = shop

\* pool.query rejects: the error may echo the values bound to the statement
QueryError(values) == ErrWith("DatabaseError", "query failed", values)

\* faulty variant of Upsert: ON CONFLICT (shop) DO NOTHING
UpsertDoNothing(rows, shop, token) ==
  IF HasShop(rows, shop) THEN rows ELSE Append(rows, Row(shop, token, TRUE))

\* INSERT ... ON CONFLICT (shop) DO UPDATE SET access_token, ..., is_active = true
Upsert(rows, shop, token) ==
  IF HasShop(rows, shop)
  THEN [i \in 1..Len(rows) |-> IF rows[i].shop = shop THEN Row(shop, token, TRUE) ELSE rows[i]]
  ELSE Append(rows, Row(shop, token, TRUE))

\* faulty variant of SaveShopResult: when encrypt throws, the token is stored
\* as it was given
SaveShopFallsBack(rows, shop, accessToken, e, rnd, dbOk) ==
  LET enc == Encrypt(accessToken, e, rnd) IN
  IF enc.status = "throw"
  THEN [out  |-> Thrown(enc.error,
                        enc.log \o <<LogLine("Error saving shop:", enc.error, <<>>)>>,
                        enc.trace),
        rows |-> Upsert(rows, shop, accessToken)]
  ELSE IF ~dbOk
  THEN [out  |-> Thrown(QueryError(<<shop, enc.value>>),
                        <<LogLine("Error saving shop:", QueryError(<<shop, enc.value>>), <<>>)>>,
                        enc.trace),
        rows |-> rows]
  ELSE [out  |-> Returned(<<Row(shop, enc.value, TRUE)>>,
                          <<LogLine("Shop saved:", NoError, <<shop>>)>>,
                          enc.trace),
        rows |-> Upsert(rows, shop, enc.value)]

\* faulty variant of SaveShopResult: the token is bound to the statement as it
\* was given
SaveShopStoresPlain(rows, shop, accessToken, e, rnd, dbOk) ==
  LET enc == Encrypt(accessToken, e, rnd) IN
  IF enc.status = "throw"
  THEN [out  |-> Thrown(enc.error,
                        enc.log \o <<LogLine("Error saving shop:", enc.error, <<>>)>>,
                        enc.trace),
        rows |-> rows]
  ELSE IF ~dbOk
  THEN [out  |-> Thrown(QueryError(<<shop>>),
                        <<LogLine("Error saving shop:", QueryError(<<shop>>), <<>>)>>,
                        enc.trace),
        rows |-> rows]
  ELSE [out  |-> Returned(<<Row(shop, accessToken, TRUE)>>,
                          <<LogLine("Shop saved:", NoError, <<shop>>)>>,
                          enc.trace),
        rows |-> Upsert(rows, shop, accessToken)]

\* saveShop({shop, accessToken, ...}): the outcome and the table afterwards
SaveShopResult(rows, shop, accessToken, e, rnd, dbOk) ==
  LET enc == Encrypt(accessToken, e, rnd) IN
  IF enc.status = "throw"
  THEN [out  |-> Thrown(enc.error,
                        enc.log \o <<LogLine("Error saving shop:", enc.error, <<>>)>>,
                        enc.trace),
        rows |-> rows]
  ELSE LET encryptedToken == enc.value
           values         == <<shop, encryptedToken>>
       IN  IF ~dbOk
           THEN [out  |-> Thrown(QueryError(values),
                                 <<LogLine("Error saving shop:", QueryError(values), <<>>)>>,
                                 enc.trace),
                 rows |-> rows]
           ELSE [out  |-> Returned(<<Row(shop, encryptedToken, TRUE)>>,
                                   <<LogLine("Shop saved:", NoError, <<shop>>)>>,
                                   enc.trace),
                 rows |-> Upsert(rows, shop, encryptedToken)]

\* faulty variant of GetShopResult: the query has no "AND is_active = true"
GetShopIgnoresActive(rows, shop, e, dbOk) ==
  LET found == SelectSeq(rows, LAMBDA r : r.shop = shop) IN
  IF ~dbOk
  THEN Thrown(QueryError(<<shop>>),
              <<LogLine("Error getting shop:", QueryError(<<shop>>), <<>>)>>, <<>>)
  ELSE IF Len(found) = 0 THEN Returned(<<>>, <<>>, <<>>)
  ELSE LET dec == Decrypt(found[1].access_token, e) IN
       IF dec.status = "throw"
       THEN Thrown(dec.error,
                   dec.log \o <<LogLine("Error getting shop:", dec.error, <<>>)>>,
                   dec.trace)
       ELSE Returned(<<[found[1] EXCEPT !.access_token = dec.value]>>, <<>>, dec.trace)

\* getShop(shop): null is <<>>, a row is <<row>>
GetShopResult(rows, shop, e, dbOk) ==
  LET found == SelectSeq(rows, LAMBDA r : r.shop = shop /\ r.is_active) IN
  IF ~dbOk
  THEN Thrown(QueryError(<<shop>>),
              <<LogLine("Error getting shop:", QueryError(<<shop>>), <<>>)>>, <<>>)
  ELSE IF Len(found) = 0 THEN Returned(<<>>, <<>>, <<>>)
  ELSE LET shopData == found[1]
           dec      == Decrypt(shopData.access_token, e)
       IN  IF dec.status = "throw"
           THEN Thrown(dec.error,
                       dec.log \o <<LogLine("Error getting shop:", dec.error, <<>>)>>,
                       dec.trace)
           ELSE Returned(<<[shopData EXCEPT !.access_token = dec.value]>>, <<>>, dec.trace)

\* faulty variant of DecryptRows: a row whose token does not decrypt is left out
RECURSIVE DecryptRowsSkipFailed(_, _, _)
DecryptRowsSkipFailed(rows, e, acc) ==
  IF rows = <<>> THEN Returned(acc, <<>>, <<>>)
  ELSE LET dec == Decrypt(Head(rows).access_token, e) IN
       IF dec.status = "throw" THEN DecryptRowsSkipFailed(Tail(rows), e, acc)
       ELSE DecryptRowsSkipFailed(Tail(rows), e,
                                  Append(acc, [Head(rows) EXCEPT !.access_token = dec.value]))

\* rows.map(shop => ({...shop, access_token: decrypt(shop.access_token)})):
\* the rows decrypted in order; the first failure ends the map
RECURSIVE DecryptRows(_, _, _)
DecryptRows(rows, e, acc) ==
  IF rows = <<>> THEN Returned(acc, <<>>, <<>>)
  ELSE LET dec == Decrypt(Head(rows).access_token, e) IN
       IF dec.status = "throw" THEN dec
       ELSE DecryptRows(Tail(rows), e, Append(acc, [Head(rows) EXCEPT !.access_token = dec.value]))

\* getAllActiveShops(): ... WHERE is_active = true ORDER BY installed_at DESC
GetAllActiveShopsResult(rows, e, dbOk) ==
  LET found  == Reverse(SelectSeq(rows, LAMBDA r : r.is_active))
      mapped == DecryptRows(found, e, <<>>)
  IN
  IF ~dbOk
  THEN Thrown(QueryError(<<>>),
              <<LogLine("Error getting all shops:", QueryError(<<>>), <<>>)>>, <<>>)
  ELSE IF mapped.status = "throw"
  THEN Thrown(mapped.error,
              mapped.log \o <<LogLine("Error getting all shops:", mapped.error, <<>>)>>,
              mapped.trace)
  ELSE mapped

\* deactivateShop(shop): UPDATE shops SET is_active = false WHERE shop = $1 RETURNING *
DeactivateShopResult(rows, shop, dbOk) ==
  LET after == [i \in 1..Len(rows) |->
                  IF rows[i].shop = shop THEN [rows[i] EXCEPT !.is_active = FALSE] ELSE rows[i]]
  IN
  IF ~dbOk
  THEN [out  |-> Thrown(QueryError(<<shop>>),
                        <<LogLine("Error deactivating shop:", QueryError(<<shop>>), <<>>)>>, <<>>),
        rows |-> rows]
  ELSE [out  |-> Returned(SelectSeq(after, LAMBDA r : r.shop = shop),
                          <<LogLine("Shop deactivated:", NoError, <<shop>>)>>, <<>>),
        rows |-> after]

\* faulty variant of DeleteShopResult: the row is marked inactive, not removed
DeleteShopKeepsRow(rows, shop, dbOk) ==
  IF ~dbOk
  THEN [out  |-> Thrown(QueryError(<<shop>>),
                        <<LogLine("Error deleting shop:", QueryError(<<shop>>), <<>>)>>, <<>>),
        rows |-> rows]
  ELSE [out  |-> Returned(<<TRUE>>, <<LogLine("Shop deleted:", NoError, <<shop>>)>>, <<>>),
        rows |-> [i \in 1..Len(rows) |->
                    IF rows[i].shop = shop THEN [rows[i] EXCEPT !.is_active = FALSE]
                    ELSE rows[i]]]

\* deleteShop(shop): DELETE FROM shops WHERE shop = $1; true is <<TRUE>>
DeleteShopResult(rows, shop, dbOk) ==
  IF ~dbOk
  THEN [out  |-> Thrown(QueryError(<<shop>>),
                        <<LogLine("Error deleting shop:", QueryError(<<shop>>), <<>>)>>, <<>>),
        rows |-> rows]
  ELSE [out  |-> Returned(<<TRUE>>, <<LogLine("Shop deleted:", NoError, <<shop>>)>>, <<>>),
        rows |-> SelectSeq(rows, LAMBDA r : r.shop # shop)]

SaveShop ==
  /\ ret.op = "none"
  /\ drawn # IVs
  /\ \E shop \in ShopNames, accessToken \in Tokens, dbOk \in BOOLEAN :
       LET rnd == RandomBytes
           res == SaveShopResult(shops, shop, accessToken, env, rnd, dbOk)
       IN
       /\ ret' = Call("saveShop", <<shop, accessToken>>,
                      IF HasShop(shops, shop) THEN Variant("replace", 0) ELSE NoVariant,
                      res.out)
       /\ shops' = res.rows
       /\ drawn' = Draw(res.out, rnd)
       /\ UNCHANGED <<env, last, hist, frames, web, tables, runs, api>>

GetShop ==
  /\ ret.op = "none"
  /\ \E shop \in ShopNames, dbOk \in BOOLEAN :
       /\ ret' = Call("getShop", <<shop>>, NoVariant, GetShopResult(shops, shop, env, dbOk))
       /\ UNCHANGED <<env, drawn, last, hist, shops, frames, web, tables, runs, api>>

GetAllActiveShops ==
  /\ ret.op = "none"
  /\ \E dbOk \in BOOLEAN :
       /\ ret' = Call("getAllActiveShops", <<>>, NoVariant, GetAllActiveShopsResult(shops, env, dbOk))
       /\ UNCHANGED <<env, drawn, last, hist, shops, frames, web, tables, runs, api>>

DeactivateShop ==
  /\ ret.op = "none"
  /\ \E shop \in ShopNames, dbOk \in BOOLEAN :
       LET res == DeactivateShopResult(shops, shop, dbOk) IN
       /\ ret' = Call("deactivateShop", <<shop>>, NoVariant, res.out)
       /\ shops' = res.rows
       /\ UNCHANGED <<env, drawn, last, hist, frames, web, tables, runs, api>>

DeleteShop ==
  /\ ret.op = "none"
  /\ \E shop \in ShopNames, dbOk \in BOOLEAN :
       LET res == DeleteShopResult(shops, shop, dbOk) IN
       /\ ret' = Call("deleteShop", <<shop>>, NoVariant, res.out)
       /\ shops' = res.rows
       /\ UNCHANGED <<env, drawn, last, hist, frames, web, tables, runs, api>>

NextStore ==
  SetSecret \/ SaveShop \/ GetShop \/ GetAllActiveShops \/ DeactivateShop \/ DeleteShop \/ Resume

SpecStore == Init /\ [][NextStore]_vars

-----------------------------------------------------------------------------
(* Calls of encrypt and decrypt side by side: each call is a frame that      *)
(* advances statement by statement, interleaved with the other call and with *)
(* changes of the secret                                                     *)

\* a blob stored before the calls started
StoredBlob == Encrypt(<<Ch("h", 10)>>, <<SecretA>>, IvOf(MaxIV + 1)).value

\* blobs at hand for a call of decrypt: the stored one and those returned by
\* the calls of encrypt that are done
BlobsAtHand(fr) ==
  {StoredBlob} \cup {fr[q].out.value : q \in {r \in Procs : /\ fr[r].pc = "done"
                                                            /\ fr[r].op = "encrypt"
                                                            /\ fr[r].out.status = "return"}}

\* calls of encrypt that have their key and will draw an IV
AboutToDraw(fr) == {q \in Procs : fr[q].op = "encrypt" /\ fr[q].pc = "key"}

\* the frame of the call that is in flight and has the smallest number
FirstInFlight(fr) ==
  fr[CHOOSE q \in Procs : fr[q].pc # "idle" /\ \A r \in Procs : fr[r].pc # "idle" => q <= r]

\* faulty variant of Local: the secret read by getKey is kept in a variable
\* of the module, which the first call in flight has written
LocalSharedKey(fr, p) == [fr[p] EXCEPT !.e = FirstInFlight(fr).e]

\* the constants key, iv, cipher, ... of call p are local to the call: its
\* statements read the frame of p and no other
Local(fr, p) == fr[p]

\* call p starts and runs getKey(): it reads the secret configured now; when
\* getKey throws, the call ends in its catch block
Begin(p) ==
  /\ frames[p].pc = "idle"
  /\ \E op \in {"encrypt", "decrypt"} :
       /\ op = "encrypt" => Cardinality(drawn) + Cardinality(AboutToDraw(frames)) < MaxIV
       /\ \E arg \in (IF op = "encrypt" THEN Tokens ELSE BlobsAtHand(frames)) :
            frames' = [frames EXCEPT ![p] =
                         IF GetKey(env).status = "throw"
                         THEN Frame("done", op, arg, env, <<>>,
                                    IF op = "encrypt" THEN Encrypt(arg, env, <<>>)
                                                      ELSE Decrypt(arg, env))
                         ELSE Frame("key", op, arg, env, <<>>, Returned(<<>>, <<>>, <<>>))]
  /\ UNCHANGED <<env, drawn, last, hist, ret, shops, web, tables, runs, api>>

\* call p of encrypt runs crypto.randomBytes(16)
DrawIv(p) ==
  /\ frames[p].pc = "key"
  /\ frames[p].op = "encrypt"
  /\ frames' = [frames EXCEPT ![p] = [@ EXCEPT !.pc = "iv", !.iv = RandomBytes]]
  /\ drawn' = drawn \cup {RandomBytes}
  /\ UNCHANGED <<env, last, hist, ret, shops, web, tables, runs, api>>

\* call p runs its cipher statements and returns or throws
Finish(p) ==
  /\ \/ frames[p].pc = "iv"
     \/ frames[p].pc = "key" /\ frames[p].op = "decrypt"
  /\ LET l == Local(frames, p) IN
     frames' = [frames EXCEPT ![p] =
                  [@ EXCEPT !.pc = "done",
                            !.out = IF frames[p].op = "encrypt"
                                    THEN Encrypt(l.arg, l.e, l.iv)
                                    ELSE Decrypt(l.arg, l.e)]]
  /\ UNCHANGED <<env, drawn, last, hist, ret, shops, web, tables, runs, api>>

\* the caller of p has taken the outcome
Return(p) ==
  /\ frames[p].pc = "done"
  /\ frames' = [frames EXCEPT ![p] = IdleFrame]
  /\ UNCHANGED <<env, drawn, last, hist, ret, shops, web, tables, runs, api>>

BeginCall == \E p \in Procs : Begin(p)

DrawIvCall == \E p \in Procs : DrawIv(p)

FinishCall == \E p \in Procs : Finish(p)

ReturnCall == \E p \in Procs : Return(p)

NextConc == SetSecret \/ BeginCall \/ DrawIvCall \/ FinishCall \/ ReturnCall

SpecConc == Init /\ [][NextConc]_vars

-----------------------------------------------------------------------------
(* index.js: the two routes of the Shopify OAuth flow *)

\* authorization codes 'c' and 'd', state values 's' and 't'
OAuthCodes == {<<Ch("u", 99)>>, <<Ch("u", 100)>>}

OAuthStates == {<<Ch("u", 115)>>, <<Ch("u", 116)>>}

\* a query parameter over the values S: absent, empty or one of S
QueryValues(S) == {<<>>, <<<<>>>>} \cup {<<v>> : v \in S}

\* what the POST to /admin/oauth/access_token comes to: a JSON body with an
\* access_token, a JSON body without one, or a rejected fetch
Answer(kind, access_token) == [kind |-> kind, access_token |-> access_token]

ShopifyAnswers ==
  {Answer("token", t) : t \in Tokens \ {<<>>}} \cup {Answer("error", <<>>), Answer("reject", <<>>)}

\* authUrl: .../admin/oauth/authorize?client_id=..&scope=..&redirect_uri=..
AuthUrl == Location({"client_id", "scope", "redirect_uri"}, <<>>)

\* GET /auth/shopify
AuthShopifyResult == Reply(302, "", <<>>, AuthUrl)

\* GET /auth/shopify/callback with the query and the answer of Shopify: the
\* reply and the codes posted to Shopify
CallbackResult(query, answer) ==
  IF query.code = <<>> \/ query.code[1] = <<>>
  THEN [reply |-> Reply(400, "No authorization code received", <<>>, NoLocation),
        sent  |-> <<>>]
  ELSE [reply |-> IF answer.kind = "reject"
                  THEN Reply(500, "OAuth failed", <<>>, NoLocation)
                  ELSE IF answer.access_token # <<>>
                  THEN Reply(200, "", answer.access_token, NoLocation)
                  ELSE Reply(500, "Failed to get access token", <<>>, NoLocation),
        sent  |-> <<query.code[1]>>]

AuthShopify ==
  /\ web' = [web EXCEPT !.req    = Request("/auth/shopify", <<>>, <<>>),
                        !.reply  = AuthShopifyResult,
                        !.issued = @ \cup Range(AuthShopifyResult.location.state)]
  /\ UNCHANGED <<env, drawn, last, hist, ret, shops, frames, tables, runs, api>>

AuthShopifyCallback ==
  /\ Len(web.sent) < MaxExchanges
  /\ \E code \in QueryValues(OAuthCodes), state \in QueryValues(OAuthStates),
        answer \in ShopifyAnswers :
       LET res == CallbackResult(Request("/auth/shopify/callback", code, state), answer) IN
       web' = [web EXCEPT !.req   = Request("/auth/shopify/callback", code, state),
                          !.reply = res.reply,
                          !.sent  = @ \o res.sent]
  /\ UNCHANGED <<env, drawn, last, hist, ret, shops, frames, tables, runs, api>>

NextOAuth == AuthShopify \/ AuthShopifyCallback

SpecOAuth == Init /\ [][NextOAuth]_vars

-----------------------------------------------------------------------------
(* index.js: shipments and fulfilment *)

\* longest shipments table
MaxShipments == 2

\* !x for a string or a column of a row: undefined, NULL or the empty string
Falsy(x) == x = <<>> \/ x[1] = ""

\* the database when the server starts with orders imported earlier: order 1
\* came from Shopify, order 2 did not
SeededRows ==
  Tables(<<Order(1, "1001", <<"5001">>, "Pending", <<>>),
           Order(2, "M-1", <<>>, "Pending", <<>>)>>,
         <<>>, <<>>, <<>>)

\* order ids a request names: the two orders and one that does not exist
OrderIds == {1, 2, 3}

\* tracking_number of a request body: undefined, '' or a number
TrackingValues == {<<>>, <<"">>, <<"1Z1">>}

\* SHOPIFY_ACCESS_TOKEN: unset, empty or a token
AccessTokens == {<<>>, <<"">>, <<"shpat">>}

\* how the queries of a handler go: all succeed, the first is rejected, or
\* the second is rejected
DbOutcomes == {"ok", "first", "second"}

Shipment(order_id, carrier, tracking_number) ==
  [order_id |-> order_id, carrier |-> carrier, tracking_number |-> tracking_number]

\* INSERT INTO shipments (order_id, carrier, tracking_number, shipped_at)
InsertShipment(t, order_id, carrier, tracking_number) ==
  [t EXCEPT !.shipments = Append(@, Shipment(order_id, carrier, tracking_number))]

\* UPDATE orders SET status = ... WHERE id = $1
UpdateStatus(t, id, status) ==
  [t EXCEPT !.orders = [i \in 1..Len(@) |->
                          IF @[i].id = id THEN [@[i] EXCEPT !.status = status] ELSE @[i]]]

\* the two queries of both shipment routes: the insert, then the update
InsertThenMarkShipped(t, route, order_id, carrier, tracking_number, db) ==
  IF db = "first"
  THEN [tables |-> t, reply |-> Served(route, <<>>, 500, "Failed to create shipment", FALSE)]
  ELSE IF db = "second"
  THEN [tables |-> InsertShipment(t, order_id, carrier, tracking_number),
        reply  |-> Served(route, <<>>, 500, "Failed to create shipment", FALSE)]
  ELSE [tables |-> UpdateStatus(InsertShipment(t, order_id, carrier, tracking_number),
                                order_id, "Shipped"),
        reply  |-> Served(route, <<>>, 200, "", FALSE)]

\* POST /shipments with body {order_id, carrier, tracking_number}
CreateShipmentResult(t, order_id, carrier, tracking_number, db) ==
  IF order_id = <<>> \/ Falsy(carrier) \/ Falsy(tracking_number)
  THEN [tables |-> t,
        reply  |-> Served("POST /shipments", <<>>, 400, "Missing required fields", FALSE)]
  ELSE InsertThenMarkShipped(t, "POST /shipments", order_id[1], carrier, tracking_number, db)

\* POST /orders/:orderId/shipments with body {carrier, tracking_number}
PostOrderShipmentResult(t, orderId, carrier, tracking_number, db) ==
  InsertThenMarkShipped(t, "POST /orders/:orderId/shipments", orderId, carrier,
                        tracking_number, db)

\* a row of SELECT ... FROM orders o LEFT JOIN shipments s ON s.order_id = o.id
Joined(shopify_order_id, tracking_number, carrier) ==
  [shopify_order_id |-> shopify_order_id, tracking_number |-> tracking_number,
   carrier |-> carrier]

\* the rows of that join WHERE o.id = orderId: one per shipment of the order,
\* or one with NULL shipment columns when it has none
JoinedRows(t, orderId) ==
  UNION {LET own == {j \in 1..Len(t.shipments) : t.shipments[j].order_id = orderId} IN
         IF own = {}
         THEN {Joined(t.orders[i].shopify_order_id, <<>>, <<>>)}
         ELSE {Joined(t.orders[i].shopify_order_id, t.shipments[j].tracking_number,
                      t.shipments[j].carrier) : j \in own}
         : i \in {k \in 1..Len(t.orders) : t.orders[k].id = orderId}}

\* what Shopify answers to POST .../fulfillments.json: a body with a
\* fulfillment, a body without one, or a rejected fetch
FulfillmentAnswers == {"fulfillment", "errors", "reject"}

\* faulty variant of FulfillOrderResult: the status is written before the
\* body of the answer is looked at
FulfillOrderUnconfirmed(t, token, orderId, rows, answer, db) ==
  IF Falsy(token)
  THEN [tables |-> t,
        reply  |-> Served("POST /shopify/fulfill-order", token, 400, "Shopify not connected", FALSE)]
  ELSE IF rows = <<>>
  THEN [tables |-> t,
        reply  |-> Served("POST /shopify/fulfill-order", token, 404, "Order not found", FALSE)]
  ELSE IF answer = "fulfillment"
  THEN [tables |-> UpdateStatus(t, orderId, "Fulfilled"),
        reply  |-> Served("POST /shopify/fulfill-order", token, 200, "", TRUE)]
  ELSE [tables |-> UpdateStatus(t, orderId, "Fulfilled"),
        reply  |-> Served("POST /shopify/fulfill-order", token, 500, "Failed to fulfill", TRUE)]

\* POST /shopify/fulfill-order with body {orderId}: rows is what the SELECT
\* with LIMIT 1 returns (<<>> or one row of the join)
FulfillOrderResult(t, token, orderId, rows, answer, db) ==
  LET route == "POST /shopify/fulfill-order" IN
  IF Falsy(token)
  THEN [tables |-> t, reply |-> Served(route, token, 400, "Shopify not connected", FALSE)]
  ELSE IF db = "first"
  THEN [tables |-> t, reply |-> Served(route, token, 500, "Failed to fulfill order", FALSE)]
  ELSE IF rows = <<>>
  THEN [tables |-> t, reply |-> Served(route, token, 404, "Order not found", FALSE)]
  ELSE IF Falsy(rows[1].shopify_order_id)
  THEN [tables |-> t, reply |-> Served(route, token, 400, "Order not from Shopify", FALSE)]
  ELSE IF Falsy(rows[1].tracking_number)
  THEN [tables |-> t, reply |-> Served(route, token, 400, "No tracking number", FALSE)]
  ELSE IF answer = "reject"
  THEN [tables |-> t, reply |-> Served(route, token, 500, "Failed to fulfill order", TRUE)]
  ELSE IF answer # "fulfillment"
  THEN [tables |-> t, reply |-> Served(route, token, 500, "Failed to fulfill", TRUE)]
  ELSE IF db = "second"
  THEN [tables |-> t, reply |-> Served(route, token, 500, "Failed to fulfill order", TRUE)]
  ELSE [tables |-> UpdateStatus(t, orderId, "Fulfilled"),
        reply  |-> Served(route, token, 200, "", TRUE)]

\* the deployment sets, changes or removes SHOPIFY_ACCESS_TOKEN
SetAccessToken ==
  /\ \E token \in AccessTokens :
       /\ token # api.token
       /\ api' = [api EXCEPT !.token = token]
  /\ UNCHANGED <<env, drawn, last, hist, ret, shops, frames, web, tables, runs>>

CreateShipment ==
  /\ Len(tables.shipments) < MaxShipments
  /\ \E order_id \in {<<>>} \cup {<<i>> : i \in OrderIds}, carrier \in {<<>>, <<"UPS">>},
        tracking_number \in TrackingValues, db \in DbOutcomes :
       LET res == CreateShipmentResult(tables, order_id, carrier, tracking_number, db) IN
       /\ tables' = res.tables
       /\ api' = [api EXCEPT !.reply = res.reply]
  /\ UNCHANGED <<env, drawn, last, hist, ret, shops, frames, web, runs>>

PostOrderShipment ==
  /\ Len(tables.shipments) < MaxShipments
  /\ \E orderId \in OrderIds, tracking_number \in TrackingValues, db \in DbOutcomes :
       LET res == PostOrderShipmentResult(tables, orderId, <<"UPS">>, tracking_number, db) IN
       /\ tables' = res.tables
       /\ api' = [api EXCEPT !.reply = res.reply]
  /\ UNCHANGED <<env, drawn, last, hist, ret, shops, frames, web, runs>>

FulfillOrder ==
  /\ \E orderId \in OrderIds, answer \in FulfillmentAnswers, db \in DbOutcomes :
       \E rows \in (IF JoinedRows(tables, orderId) = {} THEN {<<>>}
                    ELSE {<<j>> : j \in JoinedRows(tables, orderId)}) :
         LET res == FulfillOrderResult(tables, api.token, orderId, rows, answer, db) IN
         /\ tables' = res.tables
         /\ api' = [api EXCEPT !.reply = res.reply]
  /\ UNCHANGED <<env, drawn, last, hist, ret, shops, frames, web, runs>>

\* the server starts with its encryption secret set, on a database that holds
\* the seeded orders
InitShip ==
  /\ env = <<SecretA>>
  /\ drawn = {}
  /\ last = <<>>
  /\ hist = <<>>
  /\ ret = Idle
  /\ shops = <<>>
  /\ frames = [p \in Procs |-> IdleFrame]
  /\ web = NoTraffic
  /\ tables = SeededRows
  /\ runs = [r \in Runs |-> IdleRun]
  /\ api = Api(<<>>, NoServed, NoReport)

NextShip == SetAccessToken \/ CreateShipment \/ PostOrderShipment \/ FulfillOrder

SpecShip == InitShip /\ [][NextShip]_vars

-----------------------------------------------------------------------------
(* index.js: POST /shopify/sync-orders *)

DigitStr(d) ==
  CASE d = 0 -> "0" [] d = 1 -> "1" [] d = 2 -> "2" [] d = 3 -> "3" [] d = 4 -> "4"
    [] d = 5 -> "5" [] d = 6 -> "6" [] d = 7 -> "7" [] d = 8 -> "8" [] OTHER -> "9"

\* String(n) of a non-negative integer
RECURSIVE String(_)
String(n) == IF n < 10 THEN DigitStr(n) ELSE String(n \div 10) \o DigitStr(n % 10)

\* an order of Shopify's orders.json
ShopifyOrder(id, order_number, line_items) ==
  [id |-> id, order_number |-> order_number, line_items |-> line_items]

\* the open order of the shop: number 1001 with two line items
OpenOrder == ShopifyOrder(5001, 1001, <<"SKU-A", "SKU-B">>)

\* data.orders of an answer that has the field
Feeds == {<<>>, <<OpenOrder>>}

\* what Shopify answers to GET orders.json: a body with orders, a body
\* without, or a rejected fetch
SyncAnswers == {"orders", "errors", "reject"}

\* what a step of a run leaves: the tables, the run, and <<>> or the answer
\* <<reply, report>> it has sent
Step(t, run, sent) == [tables |-> t, run |-> run, sent |-> sent]

\* reply.send({success: true, imported, failed, orders, errors})
SyncDone(t, run) ==
  Step(t, IdleRun,
       <<Served("POST /shopify/sync-orders", run.token, 200, "", TRUE),
         Report(run.imported, run.errors)>>)

\* the for loop goes to its next order, or ends and the route answers
NextOrder(t, run) ==
  IF Tail(run.todo) = <<>>
  THEN SyncDone(t, run)
  ELSE Step(t, [run EXCEPT !.pc = "check", !.todo = Tail(@), !.orderId = 0, !.items = <<>>],
            <<>>)

\* catch (err) { errors.push({order: shopifyOrder.order_number, ...}) }
Caught(t, run) ==
  NextOrder(t, [run EXCEPT !.errors = Append(@, Head(run.todo).order_number)])

\* imported.push(shopifyOrder.order_number) at the end of the loop body
Imported(t, run) ==
  NextOrder(t, [run EXCEPT !.imported = Append(@, Head(run.todo).order_number)])

\* faulty variant of SyncBeginResult: the token is looked at after the fetch
SyncBeginFetchesFirst(token, answer, feed) ==
  LET route == "POST /shopify/sync-orders" IN
  IF answer = "reject"
  THEN Step(<<>>, IdleRun, <<Served(route, token, 500, "Failed to sync Shopify orders", TRUE), NoReport>>)
  ELSE IF Falsy(token)
  THEN Step(<<>>, IdleRun,
            <<Served(route, token, 400, "Shopify not connected. Visit /auth/shopify first", TRUE),
              NoReport>>)
  ELSE IF answer = "errors"
  THEN Step(<<>>, IdleRun, <<Served(route, token, 500, "Failed to fetch orders", TRUE), NoReport>>)
  ELSE IF feed = <<>>
  THEN SyncDone(<<>>, Run("idle", token, <<>>, 0, <<>>, <<>>, <<>>))
  ELSE Step(<<>>, Run("check", token, feed, 0, <<>>, <<>>, <<>>), <<>>)

\* the route up to the first query of the loop: the token, the fetch, the
\* body of the answer (the tables are not touched: the field tables is <<>>)
SyncBeginResult(token, answer, feed) ==
  LET route == "POST /shopify/sync-orders" IN
  IF Falsy(token)
  THEN Step(<<>>, IdleRun,
            <<Served(route, token, 400, "Shopify not connected. Visit /auth/shopify first", FALSE),
              NoReport>>)
  ELSE IF answer = "reject"
  THEN Step(<<>>, IdleRun, <<Served(route, token, 500, "Failed to sync Shopify orders", TRUE), NoReport>>)
  ELSE IF answer = "errors"
  THEN Step(<<>>, IdleRun, <<Served(route, token, 500, "Failed to fetch orders", TRUE), NoReport>>)
  ELSE IF feed = <<>>
  THEN SyncDone(<<>>, Run("idle", token, <<>>, 0, <<>>, <<>>, <<>>))
  ELSE Step(<<>>, Run("check", token, feed, 0, <<>>, <<>>, <<>>), <<>>)

\* SELECT id FROM orders WHERE order_number = $1
Existing(t, order_number) ==
  {i \in 1..Len(t.orders) : t.orders[i].order_number = order_number}

\* the SELECT of the loop body and the test of its rows
SyncCheckResult(t, run, dbOk) ==
  IF ~dbOk THEN Caught(t, run)
  ELSE IF Existing(t, String(Head(run.todo).order_number)) # {} THEN NextOrder(t, run)
  ELSE Step(t, [run EXCEPT !.pc = "insert"], <<>>)

\* INSERT INTO orders (...) RETURNING id, and what follows up to the first
\* line item
SyncInsertResult(t, run, dbOk) ==
  LET o  == Head(run.todo)
      id == Len(t.orders) + 1
      t2 == [t EXCEPT !.orders = Append(@, Order(id, String(o.order_number),
                                                 <<String(o.id)>>, "Pending", <<>>))]
  IN IF ~dbOk THEN Caught(t, run)
     ELSE IF o.line_items = <<>> THEN Imported(t2, run)
     ELSE Step(t2, [run EXCEPT !.pc = "items", !.orderId = id, !.items = o.line_items], <<>>)

\* INSERT INTO order_items (...) for the next line item
SyncItemResult(t, run, dbOk) ==
  LET t2 == [t EXCEPT !.order_items = Append(@, [order_id |-> run.orderId,
                                                 sku |-> Head(run.items)])]
  IN IF ~dbOk THEN Caught(t, run)
     ELSE IF Tail(run.items) = <<>> THEN Imported(t2, run)
     ELSE Step(t2, [run EXCEPT !.items = Tail(@)], <<>>)

\* a step of run r has left res
Leave(r, res) ==
  /\ tables' = res.tables
  /\ runs' = [runs EXCEPT ![r] = res.run]
  /\ api' = IF res.sent = <<>> THEN api
            ELSE [api EXCEPT !.reply = res.sent[1], !.report = res.sent[2]]
  /\ UNCHANGED <<env, drawn, last, hist, ret, shops, frames, web>>

SyncBegin ==
  \E r \in Runs, answer \in SyncAnswers, feed \in Feeds :
    /\ runs[r].pc = "idle"
    /\ Leave(r, [SyncBeginResult(api.token, answer, feed) EXCEPT !.tables = tables])

SyncCheck ==
  \E r \in Runs, dbOk \in BOOLEAN :
    /\ runs[r].pc = "check"
    /\ Leave(r, SyncCheckResult(tables, runs[r], dbOk))

SyncInsert ==
  \E r \in Runs, dbOk \in BOOLEAN :
    /\ runs[r].pc = "insert"
    /\ Leave(r, SyncInsertResult(tables, runs[r], dbOk))

SyncItem ==
  \E r \in Runs, dbOk \in BOOLEAN :
    /\ runs[r].pc = "items"
    /\ Leave(r, SyncItemResult(tables, runs[r], dbOk))

NextSync == SetAccessToken \/ SyncBegin \/ SyncCheck \/ SyncInsert \/ SyncItem \/ FulfillOrder

SpecSync == Init /\ [][NextSync]_vars

-----------------------------------------------------------------------------
(* index.js: batches and manifests *)

\* most rows of shipping_manifests
MaxManifests == 1

\* the batch orders are assigned to, and the batch ids a manifest is asked
\* for: that batch and one no order is in
BatchIds == {1}

ManifestBatchIds == {1, 2}

\* POST /batches/:batchId/orders with body {orderIds}
AssignBatchResult(t, batchId, orderIds, dbOk) ==
  IF ~dbOk
  THEN [tables |-> t,
        reply  |-> Served("POST /batches/:batchId/orders", <<>>, 500,
                          "Failed to assign orders to batch", FALSE)]
  ELSE [tables |-> [t EXCEPT !.orders = [i \in 1..Len(@) |->
                       IF @[i].id \in orderIds THEN [@[i] EXCEPT !.batch_id = <<batchId>>]
                       ELSE @[i]]],
        reply  |-> Served("POST /batches/:batchId/orders", <<>>, 200, "", FALSE)]

Manifest(batch_id, carrier, tracking_codes, shipment_count) ==
  [batch_id |-> batch_id, carrier |-> carrier, tracking_codes |-> tracking_codes,
   shipment_count |-> shipment_count]

\* the rows of a manifest request: the shipments it found, ordered by id
ManifestOf(t, batchId, rows, db) ==
  LET route == "POST /manifests/create"
      trackingNumbers == [k \in 1..Len(rows) |-> rows[k].tracking_number[1]]
  IN IF db = "first"
     THEN [tables |-> t, reply |-> Served(route, <<>>, 500, "Failed to create manifest", FALSE)]
     ELSE IF Len(rows) = 0
     THEN [tables |-> t, reply |-> Served(route, <<>>, 404, "No shipments found in batch", FALSE)]
     ELSE IF db = "second"
     THEN [tables |-> t, reply |-> Served(route, <<>>, 500, "Failed to create manifest", FALSE)]
     ELSE [tables |-> [t EXCEPT !.shipping_manifests =
                         Append(@, Manifest(batchId, rows[1].carrier, trackingNumbers,
                                            Len(trackingNumbers)))],
           reply  |-> Served(route, <<>>, 200, "", FALSE)]

\* faulty variant of CreateManifestResult: the shipments of every order
CreateManifestOfAllOrders(t, batchId, db) ==
  ManifestOf(t, batchId, SelectSeq(t.shipments, LAMBDA x : x.tracking_number # <<>>), db)

\* POST /manifests/create with body {batchId}
CreateManifestResult(t, batchId, db) ==
  ManifestOf(t, batchId,
             SelectSeq(t.shipments,
                       LAMBDA x : /\ \E i \in 1..Len(t.orders) :
                                       /\ t.orders[i].id = x.order_id
                                       /\ t.orders[i].batch_id = <<batchId>>
                                  /\ x.tracking_number # <<>>),
             db)

AssignBatch ==
  /\ \E batchId \in BatchIds, orderIds \in SUBSET OrderIds, dbOk \in BOOLEAN :
       LET res == AssignBatchResult(tables, batchId, orderIds, dbOk) IN
       /\ tables' = res.tables
       /\ api' = [api EXCEPT !.reply = res.reply]
  /\ UNCHANGED <<env, drawn, last, hist, ret, shops, frames, web, runs>>

CreateManifest ==
  /\ Len(tables.shipping_manifests) < MaxManifests
  /\ \E batchId \in ManifestBatchIds, db \in DbOutcomes :
       LET res == CreateManifestResult(tables, batchId, db) IN
       /\ tables' = res.tables
       /\ api' = [api EXCEPT !.reply = res.reply]
  /\ UNCHANGED <<env, drawn, last, hist, ret, shops, frames, web, runs>>

NextManifest == AssignBatch \/ PostOrderShipment \/ CreateManifest

SpecManifest == InitShip /\ [][NextManifest]_vars

TypeOK ==
  /\ env \in EnvValues
  /\ drawn \subseteq IVs
  /\ Len(last) <= 1
  /\ ret.out.status \in {"return", "throw"}

-----------------------------------------------------------------------------
(* Properties of the token vault *)

Configured(e) == e # <<>> /\ e[1] # <<>>

IsCall(op) == ret.op = op

Failed == ret.out.status = "throw"

\* decrypt was called on the unmodified blob of the last encrypt call, under
\* the secret of that call
SameBlobSameSecret ==
  IsCall("decrypt") /\ ret.how.kind = "same" /\ last[1].e = env

\* C1 (as stated): for every non-empty plaintext string P and a fixed,
\* non-empty secret, decrypt(encrypt(P)) returns exactly P
C1_RoundTripAnyString ==
  (SameBlobSameSecret /\ last[1].text # <<>>)
    => (~Failed /\ ret.out.value = last[1].text)

\* C1 (amended): for every non-empty plaintext string P without an unpaired
\* surrogate and a fixed, non-empty secret, decrypt(encrypt(P)) returns
\* exactly P
C1_RoundTrip ==
  (SameBlobSameSecret /\ last[1].text # <<>> /\ WellFormed(last[1].text))
    => (~Failed /\ ret.out.value = last[1].text)

C1_Witness ==
  /\ SameBlobSameSecret
  /\ Len(last[1].text) >= 2
  /\ Ch("u", 233) \in Range(last[1].text)
  /\ WellFormed(last[1].text)
  /\ ~Failed

\* C2: decrypt of a blob with a single hex digit altered, in any of its three
\* segments, fails with AuthenticationFailedError or MalformedCiphertextError
\* and never returns a plaintext
C2_TamperDetection ==
  (IsCall("decrypt") /\ ret.how.kind = "flip" /\ last[1].e = env)
    => /\ Failed
       /\ ret.out.error.name \in {"AuthenticationFailedError", "MalformedCiphertextError"}

\* C3: decrypt under a secret other than the one the blob was encrypted under
\* fails with AuthenticationFailedError and returns no plaintext
C3_WrongKeyRejected ==
  (IsCall("decrypt") /\ ret.how.kind = "same" /\ Configured(env) /\ last[1].e # env)
    => (Failed /\ ret.out.error.name = "AuthenticationFailedError")

\* C4: decrypt fails with MalformedCiphertextError for an input with fewer
\* than 3 segments, with a non-hex segment, or with an IV or tag segment that
\* does not decode to exactly 16 bytes
C4_MalformedRejected ==
  (/\ IsCall("decrypt")
   /\ Configured(env)
   /\ ret.how.kind \in {"drop3", "empty", "nonhex", "junk", "iv8", "tag8"})
    => (Failed /\ ret.out.error.name = "MalformedCiphertextError")

\* C5: with the secret absent or empty, encrypt and decrypt fail with
\* ConfigurationError before any key derivation or cipher operation
C5_MissingConfiguration ==
  ((IsCall("encrypt") \/ IsCall("decrypt")) /\ ~Configured(env))
    => (Failed /\ ret.out.error.name = "ConfigurationError" /\ ret.out.trace = <<>>)

\* C6: every failure of decrypt reaches the caller as one of the three
\* distinguishable kinds MalformedCiphertextError, AuthenticationFailedError
\* and ConfigurationError
C6_FailureTaxonomy ==
  (IsCall("decrypt") /\ Failed)
    => ret.out.error.name \in
         {"MalformedCiphertextError", "AuthenticationFailedError", "ConfigurationError"}

\* C7: a value returned by encrypt is three colon-delimited hex segments, in
\* the order IV, tag, ciphertext; the first and the second decode to exactly
\* 16 bytes
C7_BlobFormat ==
  (IsCall("encrypt") /\ ~Failed)
    => LET parts == Split(ret.out.value)
           key   == Scrypt(env[1], SALT, KeyLen)
           ct    == GcmCrypt(key, last[1].iv, Utf8Encode(ret.arg))
       IN  /\ Len(parts) = 3
           /\ \A i \in 1..3 : \A j \in 1..Len(parts[i]) : IsHex(parts[i][j])
           /\ Len(parts[1]) = 32 /\ Len(FromHex(parts[1])) = 16
           /\ Len(parts[2]) = 32 /\ Len(FromHex(parts[2])) = 16
           /\ FromHex(parts[1]) = last[1].iv
           /\ FromHex(parts[2]) = GcmTag(key, last[1].iv, ct)
           /\ Len(parts[3]) = 2 * Len(ct) /\ FromHex(parts[3]) = ct

C7_Witness ==
  IsCall("encrypt") /\ ~Failed /\ Len(ret.arg) >= 2 /\ Len(Split(ret.out.value)[3]) >= 6

\* C10: every encrypt call takes its IV from its own randomBytes(16) call, and
\* the IV segment of its blob differs from the IV segment of every blob
\* returned before, also for the same plaintext under the same secret
C10_FreshIv ==
  (IsCall("encrypt") /\ ~Failed)
    => /\ IvSegment(ret.out.value) = ToHex(last[1].iv)
       /\ Len(FromHex(IvSegment(ret.out.value))) = IvLen
       /\ hist[Len(hist)] = IvSegment(ret.out.value)
       /\ \A i \in 1..(Len(hist) - 1) : hist[i] # IvSegment(ret.out.value)

C10_Witness ==
  IsCall("encrypt") /\ ~Failed /\ ret.how.kind = "repeat" /\ Len(hist) >= 2

\* the error decrypt caught and logged before it threw
Cause == ret.out.log[1].err

\* decrypt failed in decipher.final(): the tag did not verify
TagRejected ==
  /\ IsCall("decrypt")
  /\ Failed
  /\ Cause.message = "Unsupported state or unable to authenticate data"

\* C11: when the authentication tag does not verify, decrypt fails with
\* AuthenticationFailedError and its caller receives no plaintext, not even a
\* prefix of the decrypted data
C11_NoPartialPlaintext ==
  TagRejected => (ret.out.error.name = "AuthenticationFailedError" /\ ret.out.value = <<>>)

\* b splits on ':' into exactly 3 non-empty segments
ThreeSegments(b) ==
  LET parts == Split(b) IN
  Len(parts) = 3 /\ \A i \in 1..3 : parts[i] # <<>>

\* C12: decrypt fails with MalformedCiphertextError for every input that does
\* not split on ':' into exactly 3 non-empty segments, including an input of
\* four segments whose first three form a valid blob
C12_ExactSegmentCount ==
  (IsCall("decrypt") /\ Configured(env) /\ ~ThreeSegments(ret.arg))
    => (Failed /\ ret.out.error.name = "MalformedCiphertextError")

\* the secret of the blob was not configured when decrypt was called: getKey
\* threw
KeyMissing ==
  IsCall("decrypt") /\ Failed /\ Cause.message = "ENCRYPTION_KEY environment variable is not set"

\* C18: decrypt validates the structure of the blob before it derives the
\* key, so a structurally malformed blob fails with MalformedCiphertextError
\* whether or not the secret is configured
C18_DecryptStepOrder ==
  (IsCall("decrypt") /\ ~ThreeSegments(ret.arg))
    => /\ Failed
       /\ ret.out.error.name = "MalformedCiphertextError"
       /\ ~KeyMissing
       /\ "scryptSync" \notin Range(ret.out.trace)

\* the key a blob was sealed with: the key in the term of its tag
KeyOfBlob(blob) == FromHex(Nth(Split(blob), 2))[1].t[1]

\* C19: every encrypt and decrypt call derives its key from the secret
\* configured at the time of that call; after the secret changes, no later
\* call uses a key derived from the earlier secret
C19_KeyNotCached ==
  /\ ((IsCall("encrypt") \/ IsCall("decrypt")) /\ Configured(env))
       => "scryptSync" \in Range(ret.out.trace)
  /\ ((IsCall("encrypt") \/ IsCall("decrypt")) /\ ~Configured(env)) => Failed
  /\ (IsCall("encrypt") /\ ~Failed)
       => KeyOfBlob(ret.out.value) = Scrypt(env[1], SALT, KeyLen)
  /\ (IsCall("decrypt") /\ ~Failed)
       => KeyOfBlob(last[1].blob) = Scrypt(env[1], SALT, KeyLen)
  /\ (IsCall("decrypt") /\ Configured(env) /\ last[1].e # env) => Failed

C19_Witness ==
  /\ IsCall("decrypt")
  /\ ret.how.kind = "same"
  /\ Configured(env)
  /\ Configured(last[1].e)
  /\ last[1].e # env
  /\ TagRejected

-----------------------------------------------------------------------------
(* Properties of the shop store *)

ActiveRows == SelectSeq(shops, LAMBDA r : r.is_active)

Undecryptable(row) == Decrypt(row.access_token, env).status = "throw"

\* C8: when decrypt fails for a stored token, getShop and getAllActiveShops
\* throw; what they return never holds an empty or still-encrypted token, and
\* the list holds every active shop
C8_DecryptFailurePropagates ==
  /\ IsCall("getShop") =>
       LET rows == SelectSeq(ActiveRows, LAMBDA r : r.shop = ret.arg[1]) IN
       /\ (rows # <<>> /\ Undecryptable(rows[1])) => Failed
       /\ (~Failed /\ ret.out.value # <<>>) =>
            /\ rows # <<>>
            /\ ret.out.value[1].access_token # <<>>
            /\ ret.out.value[1].access_token # rows[1].access_token
            /\ ret.out.value[1].access_token \in Tokens
  /\ IsCall("getAllActiveShops") =>
       /\ (\E i \in 1..Len(ActiveRows) : Undecryptable(ActiveRows[i])) => Failed
       /\ ~Failed =>
            /\ Len(ret.out.value) = Len(ActiveRows)
            /\ \A i \in 1..Len(ret.out.value) :
                 /\ ret.out.value[i].access_token # <<>>
                 /\ ret.out.value[i].access_token \in Tokens
                 /\ \A j \in 1..Len(ActiveRows) :
                      ret.out.value[i].access_token # ActiveRows[j].access_token

C8_Witness ==
  /\ IsCall("getAllActiveShops")
  /\ Failed
  /\ ret.out.error.message = "Failed to decrypt data"
  /\ \E i \in 1..Len(ActiveRows) : ~Undecryptable(ActiveRows[i])

\* the strings an error object or a log line carries
Carried(out) ==
  Range(out.error.text)
    \cup UNION {Range(out.log[i].text) \cup Range(out.log[i].err.text) : i \in 1..Len(out.log)}

\* C9: whatever the outcome of saveShop with accessToken P, and of the encrypt
\* call it makes, P is neither in the thrown error nor in a log line written
\* by encrypt or saveShop
C9_PlaintextNotLogged ==
  IsCall("saveShop") => ret.arg[2] \notin Carried(ret.out)

C9_Witness ==
  /\ IsCall("saveShop")
  /\ Failed
  /\ ret.arg[2] # <<>>
  /\ Len(ret.out.log) = 2
  /\ ret.out.error.message = "Failed to encrypt data"

\* the rows of a table that belong to shop
RowsOf(rows, shop) == SelectSeq(rows, LAMBDA r : r.shop = shop)

\* blob is what encrypt returns under some configured secret with one of the
\* IVs drawn so far: three colon-delimited segments of lowercase hex digits,
\* which decode to that IV, to the tag over (key, IV, ciphertext) and to the
\* ciphertext
ProducedByEncrypt(blob) ==
  LET parts == Split(blob)
      iv    == FromHex(Nth(parts, 1))
      tag   == FromHex(Nth(parts, 2))
      ct    == FromHex(Nth(parts, 3))
  IN  /\ Len(parts) = 3
      /\ iv \in drawn
      /\ Len(tag) = TagLen
      /\ tag[1].t # <<>>
      /\ \E e \in {v \in EnvValues : Configured(v)} :
           /\ tag[1].t[1] = Scrypt(e[1], SALT, KeyLen)
           /\ tag = GcmTag(tag[1].t[1], iv, ct)
      /\ \A k \in 1..3 :
           /\ Len(parts[k]) = 2 * Len(FromHex(parts[k]))
           /\ \A j \in 1..Len(parts[k]) : parts[k][j].k = "h"

\* C13: in every reachable state of the shops store, the access_token column
\* of every row written by saveShop holds a blob exactly as produced by
\* encrypt, never the plaintext token
C13_EncryptionAtRest ==
  /\ \A i \in 1..Len(shops) :
       /\ ProducedByEncrypt(shops[i].access_token)
       /\ shops[i].access_token \notin Tokens
  /\ (IsCall("saveShop") /\ ~Failed) =>
       LET row == RowsOf(shops, ret.arg[1])[1] IN
       /\ \E rnd \in drawn : Encrypt(ret.arg[2], env, rnd).value = row.access_token
       /\ row.access_token # ret.arg[2]
       /\ Decrypt(row.access_token, env).value = ret.arg[2]
       /\ ret.out.value = <<row>>

C13_Witness ==
  /\ IsCall("saveShop")
  /\ ~Failed
  /\ Len(ret.arg[2]) = 2
  /\ Len(shops) = 2

\* saveShop has just returned
SaveShopReturned == ret.op = "none" /\ ret'.op = "saveShop" /\ ret'.out.status = "return"

\* saveShop has just thrown
SaveShopThrew == ret.op = "none" /\ ret'.op = "saveShop" /\ ret'.out.status = "throw"

\* what the saveShop call that has just returned left behind: one row for
\* its shop, from which getShop reads the token of the call, with a
\* ciphertext under an IV that no earlier call drew
Refreshed ==
  LET shop == ret'.arg[1]
      blob == ret'.out.value[1].access_token
  IN  /\ RowsOf(shops', shop) = <<Row(shop, blob, TRUE)>>
      /\ GetShopResult(shops', shop, env', TRUE) =
           Returned(<<Row(shop, ret'.arg[2], TRUE)>>, <<>>,
                    <<"scryptSync", "createDecipheriv", "setAuthTag", "update", "final">>)
      /\ FromHex(IvSegment(blob)) \in drawn' \ drawn
      /\ \A i \in 1..Len(shops) :
           shops[i].shop = shop =>
             /\ shops[i].access_token # blob
             /\ FromHex(IvSegment(shops[i].access_token)) \in drawn

ThirdSegment(blob) == Nth(Split(blob), 3)

\* the blob saveShop bound to its statement: the one in the row it returns or
\* in the error of the query
BoundBlob == IF Failed THEN ret.out.error.text[2] ELSE ret.out.value[1].access_token

\* C20: encrypt("") does not fail but returns a blob whose third segment is
\* empty, and decrypt rejects that blob as malformed, so a shop saved with an
\* empty token can never be read back
C20_EmptyPlaintext ==
  /\ (IsCall("saveShop") /\ ret.arg[2] = <<>> /\ Configured(env)) =>
       /\ "getAuthTag" \in Range(ret.out.trace)
       /\ Failed => ret.out.error.name = "DatabaseError"
       /\ Len(Split(BoundBlob)) = 3
       /\ ThirdSegment(BoundBlob) = <<>>
       /\ ~Failed => ThirdSegment(RowsOf(shops, ret.arg[1])[1].access_token) = <<>>
  /\ \A i \in 1..Len(shops) :
       ThirdSegment(shops[i].access_token) = <<>> =>
         \A e \in EnvValues :
           LET dec == Decrypt(shops[i].access_token, e) IN
           /\ dec.status = "throw"
           /\ Configured(e) => dec.log[1].err.message = "Invalid encrypted text format"
  /\ IsCall("getShop") =>
       LET rows == RowsOf(ActiveRows, ret.arg[1]) IN
       (rows # <<>> /\ ThirdSegment(rows[1].access_token) = <<>>) => Failed
  /\ (/\ IsCall("getAllActiveShops")
      /\ \E i \in 1..Len(ActiveRows) : ThirdSegment(ActiveRows[i].access_token) = <<>>)
       => Failed

C20_Witness ==
  /\ IsCall("getShop")
  /\ Failed
  /\ Configured(env)
  /\ ret.out.log[1].err.message = "Invalid encrypted text format"
  /\ RowsOf(ActiveRows, ret.arg[1]) # <<>>
  /\ ThirdSegment(RowsOf(ActiveRows, ret.arg[1])[1].access_token) = <<>>

\* shop has a row in rows and the row is inactive
Inactive(rows, shop) == \E i \in 1..Len(rows) : rows[i].shop = shop /\ ~rows[i].is_active

\* shop has an active row in rows
Active(rows, shop) == \E i \in 1..Len(rows) : rows[i].shop = shop /\ rows[i].is_active

\* the call op(shop) has just returned
JustReturned(op, shop) ==
  ret.op = "none" /\ ret'.op = op /\ ret'.arg[1] = shop /\ ret'.out.status = "return"

\* C21: after deactivateShop(s), getShop(s) returns null and getAllActiveShops
\* omits s in every later state until saveShop is called again for s, which
\* makes the shop active again with the newly saved token
C21_DeactivationHides ==
  [][\A s \in ShopNames :
       /\ JustReturned("deactivateShop", s) => ~Active(shops', s)
       /\ (~Active(shops, s) /\ ~JustReturned("saveShop", s)) => ~Active(shops', s)
       /\ JustReturned("saveShop", s) =>
            RowsOf(shops', s) = <<Row(s, ret'.out.value[1].access_token, TRUE)>>
       /\ ~Active(shops', s) =>
            /\ GetShopResult(shops', s, env', TRUE) = Returned(<<>>, <<>>, <<>>)
            /\ (ret'.op = "getShop" /\ ret'.arg[1] = s) =>
                 (ret'.out.status = "throw" \/ ret'.out.value = <<>>)
            /\ (ret'.op = "getAllActiveShops" /\ ret'.out.status = "return") =>
                 \A i \in 1..Len(ret'.out.value) : ret'.out.value[i].shop # s]_vars

C21_Witness ==
  /\ IsCall("getAllActiveShops")
  /\ ~Failed
  /\ Len(ret.out.value) = 1
  /\ Len(shops) = 2
  /\ \E s \in ShopNames : Inactive(shops, s)

\* C22: if encrypt fails, saveShop throws and the shops store is left
\* unchanged: no row inserted or updated and no plaintext token written
C22_SaveShopAllOrNothing ==
  [][(ret.op = "none" /\ ret'.op = "saveShop"
        /\ Encrypt(ret'.arg[2], env, RandomBytes).status = "throw")
       => /\ ret'.out.status = "throw"
          /\ ret'.out.error = Err("Error", "Failed to encrypt data")
          /\ shops' = shops
          /\ drawn' = drawn]_vars

C22_Witness ==
  /\ IsCall("saveShop")
  /\ Failed
  /\ ret.out.error.message = "Failed to encrypt data"
  /\ ret.how.kind = "replace"
  /\ ret.arg[2] # <<>>
  /\ Len(shops) = 1

\* C23: after deleteShop(s) returns, no row for s exists, so neither getShop(s)
\* nor getAllActiveShops yields its token; deleteShop returns true also when
\* no row for s existed
C23_CompleteDeletion ==
  [][\A s \in ShopNames :
       /\ JustReturned("deleteShop", s) =>
            /\ ret'.out.value = <<TRUE>>
            /\ shops' = SelectSeq(shops, LAMBDA r : r.shop # s)
            /\ RowsOf(shops', s) = <<>>
            /\ GetShopResult(shops', s, env', TRUE) = Returned(<<>>, <<>>, <<>>)
            /\ DeleteShopResult(shops', s, TRUE).rows = shops'
            /\ DeleteShopResult(shops', s, TRUE).out = ret'.out
       /\ RowsOf(shops', s) = <<>> =>
            /\ (ret'.op = "getShop" /\ ret'.arg[1] = s) =>
                 (ret'.out.status = "throw" \/ ret'.out.value = <<>>)
            /\ (ret'.op = "getAllActiveShops" /\ ret'.out.status = "return") =>
                 \A i \in 1..Len(ret'.out.value) : ret'.out.value[i].shop # s]_vars

C23_Witness ==
  /\ IsCall("deleteShop")
  /\ ~Failed
  /\ Len(shops) = 1
  /\ RowsOf(shops, ret.arg[1]) = <<>>
  /\ Cardinality(drawn) = 2

-----------------------------------------------------------------------------
(* Properties of calls side by side *)

\* what the call of frame f returns when it runs alone under the secret
\* configured at its start and draws the IV of f
Alone(f) == IF f.op = "encrypt" THEN Encrypt(f.arg, f.e, f.iv) ELSE Decrypt(f.arg, f.e)

-----------------------------------------------------------------------------
(* Properties of the OAuth routes *)

\* the last request was a callback
IsCallback == web.req.route = "/auth/shopify/callback"

\* the callback got an access token from Shopify
Exchanged == IsCallback /\ web.reply.status = 200 /\ web.reply.access_token # <<>>

\* the callback posted the code of its request to Shopify
Posted == IsCallback /\ web.reply.status # 400

\* C16: when the OAuth callback successfully exchanges the authorization code
\* for an access token, that token is encrypted and saved to the shops store
C16_OAuthPersistsToken ==
  Exchanged =>
    \E i \in 1..Len(shops) :
      /\ shops[i].is_active
      /\ shops[i].access_token # web.reply.access_token
      /\ Decrypt(shops[i].access_token, env) =
           Returned(web.reply.access_token, <<>>,
                    <<"scryptSync", "createDecipheriv", "setAuthTag", "update", "final">>)

\* C17: the authorization redirect issues a state value, and the callback
\* posts the code only for a request carrying that issued state; a callback
\* with a missing or different state is rejected without exchanging the code
C17_OAuthStateValidation ==
  /\ web.req.route = "/auth/shopify" =>
       /\ web.reply.location.state # <<>>
       /\ web.reply.location.state[1] \in web.issued
  /\ Posted =>
       /\ web.req.state # <<>>
       /\ web.req.state[1] \in web.issued

-----------------------------------------------------------------------------
(* Properties of shipments and fulfilment *)

\* position of a status on the way Pending -> Shipped -> Fulfilled
Rank(status) == CASE status = "Pending" -> 0 [] status = "Shipped" -> 1 [] OTHER -> 2

C27_ShipmentAndStatus ==
  \A i \in 1..Len(tables.orders), j \in 1..Len(tables.shipments) :
    tables.shipments[j].order_id = tables.orders[i].id
      => tables.orders[i].status \in {"Shipped", "Fulfilled"}

\* the orders whose status a step has changed to 'Fulfilled'
NewlyFulfilled ==
  {i \in 1..Len(tables.orders) :
     tables.orders[i].status # "Fulfilled" /\ tables'.orders[i].status = "Fulfilled"}

\* C28: POST /shopify/fulfill-order sets an order's status to 'Fulfilled' only
\* if the order exists, has a shopify_order_id and a shipment tracking number,
\* and Shopify's response contained a fulfillment; in every other case the
\* order's status is unchanged
C28_FulfilmentConfirmed ==
  [][/\ \A i \in NewlyFulfilled :
          /\ api'.reply = Served("POST /shopify/fulfill-order", api.token, 200, "", TRUE)
          /\ ~Falsy(api.token)
          /\ ~Falsy(tables.orders[i].shopify_order_id)
          /\ \E j \in 1..Len(tables.shipments) :
               /\ tables.shipments[j].order_id = tables.orders[i].id
               /\ ~Falsy(tables.shipments[j].tracking_number)
          /\ \A k \in 1..Len(tables.orders) :
               k # i => tables'.orders[k] = tables.orders[k]
     /\ (api'.reply.route = "POST /shopify/fulfill-order" /\ api'.reply.status # 200)
          => tables' = tables
     /\ (api'.reply.route = "POST /shopify/fulfill-order" /\ api'.reply.status = 200)
          => api'.reply.fetched]_vars

C28_Witness ==
  /\ api.reply = Served("POST /shopify/fulfill-order", api.token, 200, "", TRUE)
  /\ tables.orders[1].status = "Fulfilled"
  /\ tables.orders[2].status = "Shipped"
  /\ Len(tables.shipments) = 2

-----------------------------------------------------------------------------
(* Properties of the order import *)

\* C24: after any number of runs of POST /shopify/sync-orders, including runs
\* that overlap in time, the orders table holds at most one row per Shopify
\* order_number
C24_DuplicateFree ==
  \A i, j \in 1..Len(tables.orders) :
    tables.orders[i].order_number = tables.orders[j].order_number => i = j

\* the skus of the order_items rows of an order, in the order of insertion
ItemsOf(t, id) ==
  LET own == SelectSeq(t.order_items, LAMBDA x : x.order_id = id)
  IN [k \in 1..Len(own) |-> own[k].sku]

\* C25: every order row created by POST /shopify/sync-orders has all of its
\* Shopify line items in order_items once the run that created it is past it;
\* an order whose line item failed to insert is not left in the orders table
\* with missing items
C25_ImportedComplete ==
  \A i \in 1..Len(tables.orders) :
    (\A r \in Runs : ~(runs[r].pc = "items" /\ runs[r].orderId = tables.orders[i].id))
      => ItemsOf(tables, tables.orders[i].id) = OpenOrder.line_items

\* the routes that talk to Shopify with the access token
TokenRoutes == {"POST /shopify/sync-orders", "POST /shopify/fulfill-order"}

\* C29: when no access token is configured, POST /shopify/sync-orders and
\* POST /shopify/fulfill-order answer 400 and perform no outbound request and
\* no database write
C29_NoCallWithoutCredential ==
  [][(api'.reply # api.reply /\ api'.reply.route \in TokenRoutes /\ Falsy(api'.reply.token))
       => /\ api'.reply.status = 400
          /\ ~api'.reply.fetched
          /\ tables' = tables
          /\ runs' = runs
          /\ api'.reply.token = api.token]_vars

C29_Witness ==
  /\ api.reply = Served("POST /shopify/sync-orders", <<"">>, 400,
                        "Shopify not connected. Visit /auth/shopify first", FALSE)
  /\ Len(tables.orders) = 1
  /\ runs[1].pc = "idle" /\ runs[2].pc = "idle"

-----------------------------------------------------------------------------
(* Properties of manifests *)

\* the shipments, by position, that belong to an order of batch b and have a
\* tracking number
TrackedIn(t, b) ==
  {j \in 1..Len(t.shipments) :
     /\ t.shipments[j].tracking_number # <<>>
     /\ \E i \in 1..Len(t.orders) :
          t.orders[i].id = t.shipments[j].order_id /\ t.orders[i].batch_id = <<b>>}

\* the number of positions of js below or at j
Place(js, j) == Cardinality({k \in js : k <= j})

====
